---- MODULE Spec2Model ----
(***************************************************************************)
(* A model of `git-smart sync` (cmd/sync.go) and of the command runner it  *)
(* is built on (internal/git/git.go).                                      *)
(*                                                                         *)
(* Text is modelled as a sequence of one-character strings, so that        *)
(* trimming, the default-branch pattern and the case-insensitive stash-pop *)
(* patterns are computed on characters as the code computes them.          *)
(* The git executable is the environment: every invocation returns an      *)
(* exit status and a raw combined output chosen by the environment.        *)
(***************************************************************************)
EXTENDS Integers, Sequences, FiniteSets

\* ------------------------------------------------------------------------
\* Bounds
\* ------------------------------------------------------------------------

\* Largest run of whitespace the environment puts between the marker and
\* the branch name in the answer to `git remote show origin`.
MaxWs == 2

\* ------------------------------------------------------------------------
\* Characters and text
\* ------------------------------------------------------------------------

\* Whitespace: the characters both strings.TrimSpace and the pattern
\* class \s treat as white space (within the alphabet of the model).
WS == {" ", "\n", "\t"}

UpperChars == <<"A","B","C","D","E","F","G","H","I","J","K","L","M",
                "N","O","P","Q","R","S","T","U","V","W","X","Y","Z">>
LowerChars == <<"a","b","c","d","e","f","g","h","i","j","k","l","m",
                "n","o","p","q","r","s","t","u","v","w","x","y","z">>

SetMin(S) == CHOOSE x \in S : \A y \in S : x <= y
SetMax(S) == CHOOSE x \in S : \A y \in S : x >= y

\* Case folding of one character, as the (?i) flag of the patterns does.
Fold(c) ==
    IF \E k \in 1..Len(UpperChars) : UpperChars[k] = c
    THEN LowerChars[CHOOSE k \in 1..Len(UpperChars) : UpperChars[k] = c]
    ELSE c

\* strings.TrimSpace: drop leading and trailing white space.
TrimSpace(s) ==
    LET keep == {i \in 1..Len(s) : s[i] \notin WS}
    IN  IF keep = {} THEN <<>> ELSE SubSeq(s, SetMin(keep), SetMax(keep))

\* The literal text pat occurs in s at position i.
OccursAt(s, pat, i) ==
    /\ i >= 1
    /\ i + Len(pat) - 1 <= Len(s)
    /\ \A k \in 1..Len(pat) : s[i + k - 1] = pat[k]

\* The literal text pat occurs in s at position i, ignoring case.
OccursAtFold(s, pat, i) ==
    /\ i >= 1
    /\ i + Len(pat) - 1 <= Len(s)
    /\ \A k \in 1..Len(pat) : Fold(s[i + k - 1]) = Fold(pat[k])

\* regexp.MustCompile(`(?i)` + pat).MatchString(s) for a literal pat.
MatchStringFold(s, pat) == \E i \in 1..Len(s) : OccursAtFold(s, pat, i)

\* ------------------------------------------------------------------------
\* Literal texts of the program
\* ------------------------------------------------------------------------

\* "HEAD branch:"
HeadBranchMarker == <<"H","E","A","D"," ","b","r","a","n","c","h",":">>

\* "No stash found"
NoStashFound == <<"N","o"," ","s","t","a","s","h"," ","f","o","u","n","d">>

\* "No stash entries found"
NoStashEntriesFound ==
    <<"N","o"," ","s","t","a","s","h"," ","e","n","t","r","i","e","s",
      " ","f","o","u","n","d">>

\* "Did not need to pop stash"
DidNotNeedToPopStash ==
    <<"D","i","d"," ","n","o","t"," ","n","e","e","d"," ","t","o"," ",
      "p","o","p"," ","s","t","a","s","h">>

\* ------------------------------------------------------------------------
\* internal/git/git.go
\* ------------------------------------------------------------------------

\* Run: the trimmed combined output, and an error iff git exited non-zero.
Run(raw, ok) == [out |-> TrimSpace(raw), err |-> ~ok]

\* IsRepo: the probe succeeded.
IsRepo(raw, ok) == ~Run(raw, ok).err

\* GetCurrentBranch: the result of Run, unchanged.
GetCurrentBranch(raw, ok) == Run(raw, ok)

\* First index at or after i holding a non-white-space character, 0 if none.
SkipSpace(s, i) ==
    LET rest == {j \in i..Len(s) : s[j] \notin WS}
    IN  IF rest = {} THEN 0 ELSE SetMin(rest)

\* Last index of the run of non-white-space characters that starts at j.
TokenEnd(s, j) ==
    SetMax({e \in j..Len(s) : \A k \in j..e : s[k] \notin WS})

\* FindStringSubmatch returning the last match instead of the leftmost.
FindStringSubmatch_Last(s) ==
    LET starts == {i \in 1..Len(s) :
                      /\ OccursAt(s, HeadBranchMarker, i)
                      /\ SkipSpace(s, i + Len(HeadBranchMarker)) # 0}
    IN  IF starts = {} THEN <<>>
        ELSE LET i == SetMax(starts)
                 j == SkipSpace(s, i + Len(HeadBranchMarker))
                 e == TokenEnd(s, j)
             IN  <<SubSeq(s, i, e), SubSeq(s, j, e)>>

\* re.FindStringSubmatch for `HEAD branch:\s*(\S+)`: the leftmost match as
\* <<whole match, group 1>>, or the empty sequence when nothing matches.
FindStringSubmatch(s) ==
    LET starts == {i \in 1..Len(s) :
                      /\ OccursAt(s, HeadBranchMarker, i)
                      /\ SkipSpace(s, i + Len(HeadBranchMarker)) # 0}
    IN  IF starts = {} THEN <<>>
        ELSE LET i == SetMin(starts)
                 j == SkipSpace(s, i + Len(HeadBranchMarker))
                 e == TokenEnd(s, j)
             IN  <<SubSeq(s, i, e), SubSeq(s, j, e)>>

\* GetDefaultBranch falling back to a fixed branch name when the answer
\* names no HEAD branch.
GetDefaultBranch_Fallback(raw, ok) ==
    LET r == Run(raw, ok)
    IN  IF r.err THEN [branch |-> <<>>, err |-> TRUE]
        ELSE LET matches == FindStringSubmatch(r.out)
             IN  IF Len(matches) < 2
                 THEN [branch |-> <<"m","a","s","t","e","r">>, err |-> FALSE]
                 ELSE [branch |-> matches[2], err |-> FALSE]

\* GetDefaultBranch: query the remote, then extract the branch name.
GetDefaultBranch(raw, ok) ==
    LET r == Run(raw, ok)
    IN  IF r.err THEN [branch |-> <<>>, err |-> TRUE]
        ELSE LET matches == FindStringSubmatch(r.out)
             IN  IF Len(matches) < 2
                 THEN [branch |-> <<>>, err |-> TRUE]
                 ELSE [branch |-> matches[2], err |-> FALSE]

\* ------------------------------------------------------------------------
\* cmd/sync.go: the benign stash-pop test of step 7
\* ------------------------------------------------------------------------

\* The benign test without the (?i) flag.
BenignPop_CaseSensitive(popOutput) ==
    \E i \in 1..Len(popOutput) :
        \/ OccursAt(popOutput, NoStashFound, i)
        \/ OccursAt(popOutput, NoStashEntriesFound, i)
        \/ OccursAt(popOutput, DidNotNeedToPopStash, i)

BenignPop(popOutput) ==
    \/ MatchStringFold(popOutput, NoStashFound)
    \/ MatchStringFold(popOutput, NoStashEntriesFound)
    \/ MatchStringFold(popOutput, DidNotNeedToPopStash)

\* ------------------------------------------------------------------------
\* The environment: what git can answer
\* ------------------------------------------------------------------------

Main    == <<"m","a","i","n">>
Dev     == <<"d","e","v">>
Feature == <<"f","/","x">>

\* Branches HEAD can be on when sync starts.
Branches == {Main, Dev, Feature}

\* Branches the remote can report as its HEAD branch.
RemoteHeads == {Main, Dev}

Fatal == <<"f","a","t","a","l">>
Quiet == <<>>

\* k blanks.
Pad(k) == [i \in 1..k |-> " "]

ToUpper(c) ==
    IF \E k \in 1..Len(LowerChars) : LowerChars[k] = c
    THEN UpperChars[CHOOSE k \in 1..Len(LowerChars) : LowerChars[k] = c]
    ELSE c
UpperText(s) == [i \in 1..Len(s) |-> ToUpper(s[i])]
LowerText(s) == [i \in 1..Len(s) |-> Fold(s[i])]

\* Answers to `git remote show origin` that name a HEAD branch.
RemoteWithHead ==
    {<<" ", " ">> \o HeadBranchMarker \o Pad(k) \o b \o <<"\n">> :
        k \in 0..MaxWs, b \in RemoteHeads}
    \cup {HeadBranchMarker \o <<"\n", "\t">> \o Main \o <<"\n", " ", "x">>}
    \cup {HeadBranchMarker \o <<" ">> \o Dev \o <<"\n">>
             \o HeadBranchMarker \o <<" ">> \o Main}

\* Answers to `git remote show origin` that name none.
RemoteWithoutHead ==
    { Quiet,
      Fatal,
      LowerText(HeadBranchMarker) \o <<" ">> \o Main,
      SubSeq(HeadBranchMarker, 1, 11) \o <<" ">> \o Main,
      <<"x", " ">> \o HeadBranchMarker \o <<"\n">> }

RemoteOutputs == RemoteWithHead \cup RemoteWithoutHead

\* Answer to `git status --porcelain`: nothing for a clean working tree,
\* one line per change otherwise.
StatusOutput(isDirty) ==
    IF isDirty THEN <<" ", "M", " ", "a", "\n">> ELSE Quiet

\* Answers to `git stash pop`.
PopOutputs ==
    { Quiet,
      NoStashFound \o <<".", "\n">>,
      UpperText(NoStashFound),
      LowerText(NoStashEntriesFound) \o <<".">>,
      <<"e", ":", " ">> \o DidNotNeedToPopStash,
      UpperText(DidNotNeedToPopStash),
      <<"C","O","N","F","L","I","C","T">>,
      SubSeq(NoStashFound, 1, 8),
      SubSeq(NoStashEntriesFound, 1, 16),
      SubSeq(DidNotNeedToPopStash, 1, 19) }

\* ------------------------------------------------------------------------
\* cmd/sync.go: syncCmd.Run
\* ------------------------------------------------------------------------

VARIABLES
    pc,             \* position in Run
    log,            \* the git invocations made so far, with their results
    defaultBranch,  \* local defaultBranch
    currentBranch,  \* local currentBranch
    didStash,       \* local didStash
    errKind,        \* which error message has been printed, "None" if none
    exitCode,       \* process exit status, -1 while running
    head,           \* the branch the repository's HEAD is on
    dirty           \* the working tree had uncommitted changes at the start

vars == <<pc, log, defaultBranch, currentBranch, didStash, errKind,
          exitCode, head, dirty>>

\* One invocation of git through Run, recorded with what Run returned.
Issue(op, arg, r) ==
    log' = Append(log, [op |-> op, arg |-> arg, ok |-> ~r.err, out |-> r.out])

\* os.Exit(code), or the return from Run with code 0.
Exit(code) == pc' = "done" /\ exitCode' = code

Init ==
    /\ pc = "Preflight"
    /\ log = <<>>
    /\ defaultBranch = <<>>
    /\ currentBranch = <<>>
    /\ didStash = FALSE
    /\ errKind = "None"
    /\ exitCode = -1
    /\ head \in Branches
    /\ dirty \in BOOLEAN

\* Preflight that reports the missing repository and goes on.
Preflight_NoGate ==
    /\ pc = "Preflight"
    /\ \E ok \in BOOLEAN :
         LET raw == IF ok THEN <<"t","r","u","e","\n">> ELSE Fatal
         IN  /\ Issue("rev-parse --is-inside-work-tree", <<>>, Run(raw, ok))
             /\ errKind' = IF IsRepo(raw, ok) THEN errKind
                           ELSE "NotARepository"
             /\ pc' = "ResolveDefaultBranch"
             /\ UNCHANGED exitCode
    /\ UNCHANGED <<defaultBranch, currentBranch, didStash, head, dirty>>

\* if !git.IsRepo() { ...; os.Exit(1) }
Preflight ==
    /\ pc = "Preflight"
    /\ \E ok \in BOOLEAN :
         LET raw == IF ok THEN <<"t","r","u","e","\n">> ELSE Fatal
         IN  /\ Issue("rev-parse --is-inside-work-tree", <<>>, Run(raw, ok))
             /\ IF IsRepo(raw, ok)
                THEN pc' = "ResolveDefaultBranch"
                     /\ UNCHANGED <<errKind, exitCode>>
                ELSE errKind' = "NotARepository" /\ Exit(1)
    /\ UNCHANGED <<defaultBranch, currentBranch, didStash, head, dirty>>

\* defaultBranch, err := git.GetDefaultBranch()
ResolveDefaultBranch ==
    /\ pc = "ResolveDefaultBranch"
    /\ \E ok \in BOOLEAN, raw \in RemoteOutputs :
         LET d == GetDefaultBranch(raw, ok)
         IN  /\ Issue("remote show origin", <<>>, Run(raw, ok))
             /\ defaultBranch' = d.branch
             /\ IF d.err
                THEN errKind' = "DefaultBranchError" /\ Exit(1)
                ELSE pc' = "ResolveCurrentBranch"
                     /\ UNCHANGED <<errKind, exitCode>>
    /\ UNCHANGED <<currentBranch, didStash, head, dirty>>

\* ResolveCurrentBranch without the edge case for the default branch.
ResolveCurrentBranch_NoShortCircuit ==
    /\ pc = "ResolveCurrentBranch"
    /\ \E ok \in BOOLEAN :
         LET raw == IF ok THEN head \o <<"\n">> ELSE Fatal
             c   == GetCurrentBranch(raw, ok)
         IN  /\ Issue("rev-parse --abbrev-ref HEAD", <<>>, c)
             /\ currentBranch' = c.out
             /\ IF c.err
                THEN errKind' = "BranchResolutionError" /\ Exit(1)
                ELSE /\ pc' = "DetectDirtyTree"
                     /\ UNCHANGED <<errKind, exitCode>>
    /\ UNCHANGED <<defaultBranch, didStash, head, dirty>>

\* currentBranch, err := git.GetCurrentBranch(), then the comparison with
\* defaultBranch that selects the short path.
ResolveCurrentBranch ==
    /\ pc = "ResolveCurrentBranch"
    /\ \E ok \in BOOLEAN :
         LET raw == IF ok THEN head \o <<"\n">> ELSE Fatal
             c   == GetCurrentBranch(raw, ok)
         IN  /\ Issue("rev-parse --abbrev-ref HEAD", <<>>, c)
             /\ currentBranch' = c.out
             /\ IF c.err
                THEN errKind' = "BranchResolutionError" /\ Exit(1)
                ELSE /\ pc' = IF c.out = defaultBranch
                              THEN "ShortCircuit" ELSE "DetectDirtyTree"
                     /\ UNCHANGED <<errKind, exitCode>>
    /\ UNCHANGED <<defaultBranch, didStash, head, dirty>>

\* ShortCircuit that reports a failed pull and still returns normally.
ShortCircuit_NoExit ==
    /\ pc = "ShortCircuit"
    /\ \E ok \in BOOLEAN :
         LET r == Run(Quiet, ok)
         IN  /\ Issue("pull", <<>>, r)
             /\ errKind' = IF r.err THEN "PullError" ELSE errKind
             /\ Exit(0)
    /\ UNCHANGED <<defaultBranch, currentBranch, didStash, head, dirty>>

\* The edge case: already on the default branch, pull and finish.
ShortCircuit ==
    /\ pc = "ShortCircuit"
    /\ \E ok \in BOOLEAN :
         LET r == Run(Quiet, ok)
         IN  /\ Issue("pull", <<>>, r)
             /\ IF r.err
                THEN errKind' = "PullError" /\ Exit(1)
                ELSE UNCHANGED errKind /\ Exit(0)
    /\ UNCHANGED <<defaultBranch, currentBranch, didStash, head, dirty>>

\* DetectDirtyTree that does not look at the error of the status query.
DetectDirtyTree_IgnoreError ==
    /\ pc = "DetectDirtyTree"
    /\ \E ok \in BOOLEAN :
         LET r == Run(IF ok THEN StatusOutput(dirty) ELSE Fatal, ok)
         IN  /\ Issue("status --porcelain", <<>>, r)
             /\ pc' = IF r.out # <<>> THEN "Stash" ELSE "CheckoutDefault"
             /\ UNCHANGED <<errKind, exitCode>>
    /\ UNCHANGED <<defaultBranch, currentBranch, didStash, head, dirty>>

\* DetectDirtyTree with the test of status inverted.
DetectDirtyTree_Inverted ==
    /\ pc = "DetectDirtyTree"
    /\ \E ok \in BOOLEAN :
         LET r == Run(IF ok THEN StatusOutput(dirty) ELSE Fatal, ok)
         IN  /\ Issue("status --porcelain", <<>>, r)
             /\ IF r.err
                THEN errKind' = "StatusError" /\ Exit(1)
                ELSE /\ pc' = IF r.out = <<>>
                              THEN "Stash" ELSE "CheckoutDefault"
                     /\ UNCHANGED <<errKind, exitCode>>
    /\ UNCHANGED <<defaultBranch, currentBranch, didStash, head, dirty>>

\* status, err := git.Run("status", "--porcelain"), then the test of
\* status that selects the stash step.
DetectDirtyTree ==
    /\ pc = "DetectDirtyTree"
    /\ \E ok \in BOOLEAN :
         LET r == Run(IF ok THEN StatusOutput(dirty) ELSE Fatal, ok)
         IN  /\ Issue("status --porcelain", <<>>, r)
             /\ IF r.err
                THEN errKind' = "StatusError" /\ Exit(1)
                ELSE /\ pc' = IF r.out # <<>>
                              THEN "Stash" ELSE "CheckoutDefault"
                     /\ UNCHANGED <<errKind, exitCode>>
    /\ UNCHANGED <<defaultBranch, currentBranch, didStash, head, dirty>>

\* Stash that forgets to record that it stashed.
Stash_FlagNotSet ==
    /\ pc = "Stash"
    /\ \E ok \in BOOLEAN :
         LET r == Run(Quiet, ok)
         IN  /\ Issue("stash", <<>>, r)
             /\ IF r.err
                THEN errKind' = "StashError" /\ Exit(1)
                ELSE pc' = "CheckoutDefault"
                     /\ UNCHANGED <<errKind, exitCode>>
    /\ UNCHANGED <<defaultBranch, currentBranch, didStash, head, dirty>>

\* Stash that records the stash before looking at the error.
Stash_FlagBeforeCheck ==
    /\ pc = "Stash"
    /\ \E ok \in BOOLEAN :
         LET r == Run(Quiet, ok)
         IN  /\ Issue("stash", <<>>, r)
             /\ didStash' = TRUE
             /\ IF r.err
                THEN errKind' = "StashError" /\ Exit(1)
                ELSE pc' = "CheckoutDefault"
                     /\ UNCHANGED <<errKind, exitCode>>
    /\ UNCHANGED <<defaultBranch, currentBranch, head, dirty>>

\* _, err := git.Run("stash"); didStash = true
Stash ==
    /\ pc = "Stash"
    /\ \E ok \in BOOLEAN :
         LET r == Run(Quiet, ok)
         IN  /\ Issue("stash", <<>>, r)
             /\ IF r.err
                THEN errKind' = "StashError" /\ Exit(1)
                     /\ UNCHANGED didStash
                ELSE didStash' = TRUE /\ pc' = "CheckoutDefault"
                     /\ UNCHANGED <<errKind, exitCode>>
    /\ UNCHANGED <<defaultBranch, currentBranch, head, dirty>>

\* CheckoutDefault that exits on failure without restoring the stash.
CheckoutDefault_NoRestore ==
    /\ pc = "CheckoutDefault"
    /\ \E ok \in BOOLEAN :
         LET r == Run(Quiet, ok)
         IN  /\ Issue("checkout", defaultBranch, r)
             /\ IF r.err
                THEN /\ errKind' = "CheckoutError"
                     /\ Exit(1)
                     /\ UNCHANGED head
                ELSE /\ head' = defaultBranch
                     /\ pc' = "PullDefault"
                     /\ UNCHANGED <<errKind, exitCode>>
    /\ UNCHANGED <<defaultBranch, currentBranch, didStash, dirty>>

\* if _, err := git.Run("checkout", defaultBranch); err != nil { ... }
CheckoutDefault ==
    /\ pc = "CheckoutDefault"
    /\ \E ok \in BOOLEAN :
         LET r == Run(Quiet, ok)
         IN  /\ Issue("checkout", defaultBranch, r)
             /\ IF r.err
                THEN /\ errKind' = "CheckoutError"
                     /\ IF didStash
                        THEN pc' = "CheckoutDefaultRestore"
                             /\ UNCHANGED exitCode
                        ELSE Exit(1)
                     /\ UNCHANGED head
                ELSE /\ head' = defaultBranch
                     /\ pc' = "PullDefault"
                     /\ UNCHANGED <<errKind, exitCode>>
    /\ UNCHANGED <<defaultBranch, currentBranch, didStash, dirty>>

\* git.Run("stash", "pop") after a failed checkout of the default branch;
\* its result is dropped.
CheckoutDefaultRestore ==
    /\ pc = "CheckoutDefaultRestore"
    /\ \E ok \in BOOLEAN :
         Issue("stash pop", <<>>, Run(Quiet, ok))
    /\ Exit(1)
    /\ UNCHANGED <<defaultBranch, currentBranch, didStash, errKind, head, dirty>>

\* if _, err := git.Run("pull"); err != nil { ... }
PullDefault ==
    /\ pc = "PullDefault"
    /\ \E ok \in BOOLEAN :
         LET r == Run(Quiet, ok)
         IN  /\ Issue("pull", <<>>, r)
             /\ IF r.err
                THEN errKind' = "PullError" /\ pc' = "PullSwitchBack"
                ELSE UNCHANGED errKind /\ pc' = "CheckoutFeature"
    /\ UNCHANGED <<defaultBranch, currentBranch, didStash, exitCode, head,
                   dirty>>

\* PullSwitchBack that restores the stash without looking at didStash.
PullSwitchBack_AlwaysPop ==
    /\ pc = "PullSwitchBack"
    /\ \E ok \in BOOLEAN :
         /\ Issue("checkout", currentBranch, Run(Quiet, ok))
         /\ head' = IF ok THEN currentBranch ELSE head
    /\ pc' = "PullRestore"
    /\ UNCHANGED <<defaultBranch, currentBranch, didStash, errKind, exitCode,
                   dirty>>

\* PullSwitchBack that checks out the default branch instead of the
\* original one.
PullSwitchBack_WrongBranch ==
    /\ pc = "PullSwitchBack"
    /\ \E ok \in BOOLEAN :
         /\ Issue("checkout", defaultBranch, Run(Quiet, ok))
         /\ head' = IF ok THEN defaultBranch ELSE head
    /\ IF didStash
       THEN pc' = "PullRestore" /\ UNCHANGED exitCode
       ELSE Exit(1)
    /\ UNCHANGED <<defaultBranch, currentBranch, didStash, errKind, dirty>>

\* PullSwitchBack that restores the stash only when the checkout succeeded.
PullSwitchBack_PopOnlyIfBack ==
    /\ pc = "PullSwitchBack"
    /\ \E ok \in BOOLEAN :
         /\ Issue("checkout", currentBranch, Run(Quiet, ok))
         /\ head' = IF ok THEN currentBranch ELSE head
         /\ IF didStash /\ ok
            THEN pc' = "PullRestore" /\ UNCHANGED exitCode
            ELSE Exit(1)
    /\ UNCHANGED <<defaultBranch, currentBranch, didStash, errKind, dirty>>

\* git.Run("checkout", currentBranch) after a failed pull; its result is
\* dropped.
PullSwitchBack ==
    /\ pc = "PullSwitchBack"
    /\ \E ok \in BOOLEAN :
         /\ Issue("checkout", currentBranch, Run(Quiet, ok))
         /\ head' = IF ok THEN currentBranch ELSE head
    /\ IF didStash
       THEN pc' = "PullRestore" /\ UNCHANGED exitCode
       ELSE Exit(1)
    /\ UNCHANGED <<defaultBranch, currentBranch, didStash, errKind, dirty>>

\* PullRestore that reports a failed stash pop as the error of the run.
PullRestore_Escalate ==
    /\ pc = "PullRestore"
    /\ \E ok \in BOOLEAN :
         /\ Issue("stash pop", <<>>, Run(Quiet, ok))
         /\ errKind' = IF ok THEN errKind ELSE "StashPopError"
    /\ Exit(1)
    /\ UNCHANGED <<defaultBranch, currentBranch, didStash, head, dirty>>

\* git.Run("stash", "pop") after a failed pull; its result is dropped.
PullRestore ==
    /\ pc = "PullRestore"
    /\ \E ok \in BOOLEAN :
         Issue("stash pop", <<>>, Run(Quiet, ok))
    /\ Exit(1)
    /\ UNCHANGED <<defaultBranch, currentBranch, didStash, errKind, head, dirty>>

\* CheckoutFeature that exits on failure without restoring the stash.
CheckoutFeature_NoRestore ==
    /\ pc = "CheckoutFeature"
    /\ \E ok \in BOOLEAN :
         LET r == Run(Quiet, ok)
         IN  /\ Issue("checkout", currentBranch, r)
             /\ IF r.err
                THEN /\ errKind' = "CheckoutError"
                     /\ Exit(1)
                     /\ UNCHANGED head
                ELSE /\ head' = currentBranch
                     /\ pc' = "Rebase"
                     /\ UNCHANGED <<errKind, exitCode>>
    /\ UNCHANGED <<defaultBranch, currentBranch, didStash, dirty>>

\* if _, err := git.Run("checkout", currentBranch); err != nil { ... }
CheckoutFeature ==
    /\ pc = "CheckoutFeature"
    /\ \E ok \in BOOLEAN :
         LET r == Run(Quiet, ok)
         IN  /\ Issue("checkout", currentBranch, r)
             /\ IF r.err
                THEN /\ errKind' = "CheckoutError"
                     /\ IF didStash
                        THEN pc' = "CheckoutFeatureRestore"
                             /\ UNCHANGED exitCode
                        ELSE Exit(1)
                     /\ UNCHANGED head
                ELSE /\ head' = currentBranch
                     /\ pc' = "Rebase"
                     /\ UNCHANGED <<errKind, exitCode>>
    /\ UNCHANGED <<defaultBranch, currentBranch, didStash, dirty>>

\* git.Run("stash", "pop") after a failed checkout of the feature branch;
\* its result is dropped.
CheckoutFeatureRestore ==
    /\ pc = "CheckoutFeatureRestore"
    /\ \E ok \in BOOLEAN :
         Issue("stash pop", <<>>, Run(Quiet, ok))
    /\ Exit(1)
    /\ UNCHANGED <<defaultBranch, currentBranch, didStash, errKind, head, dirty>>

\* Rebase onto the wrong branch.
Rebase_OntoCurrent ==
    /\ pc = "Rebase"
    /\ \E ok \in BOOLEAN :
         LET r == Run(IF ok THEN Quiet ELSE <<"C","O","N","F","L","I","C","T">>, ok)
         IN  /\ Issue("rebase", currentBranch, r)
             /\ IF r.err
                THEN errKind' = "RebaseConflict" /\ Exit(1)
                ELSE /\ UNCHANGED errKind
                     /\ IF didStash
                        THEN pc' = "PopStash" /\ UNCHANGED exitCode
                        ELSE Exit(0)
    /\ UNCHANGED <<defaultBranch, currentBranch, didStash, head, dirty>>

\* Rebase that goes on to restore the stash after a conflict.
Rebase_PopAfterConflict ==
    /\ pc = "Rebase"
    /\ \E ok \in BOOLEAN :
         LET r == Run(IF ok THEN Quiet ELSE <<"C","O","N","F","L","I","C","T">>, ok)
         IN  /\ Issue("rebase", defaultBranch, r)
             /\ errKind' = IF r.err THEN "RebaseConflict" ELSE errKind
             /\ IF didStash
                THEN pc' = "PopStash" /\ UNCHANGED exitCode
                ELSE Exit(IF r.err THEN 1 ELSE 0)
    /\ UNCHANGED <<defaultBranch, currentBranch, didStash, head, dirty>>

\* if output, err := git.Run("rebase", defaultBranch); err != nil { ... }
\* followed by the test of didStash that selects step 7.
Rebase ==
    /\ pc = "Rebase"
    /\ \E ok \in BOOLEAN :
         LET r == Run(IF ok THEN Quiet ELSE <<"C","O","N","F","L","I","C","T">>, ok)
         IN  /\ Issue("rebase", defaultBranch, r)
             /\ IF r.err
                THEN errKind' = "RebaseConflict" /\ Exit(1)
                ELSE /\ UNCHANGED errKind
                     /\ IF didStash
                        THEN pc' = "PopStash" /\ UNCHANGED exitCode
                        ELSE Exit(0)
    /\ UNCHANGED <<defaultBranch, currentBranch, didStash, head, dirty>>

\* PopStash that tries a failed stash pop a second time.
PopStash_RetryOnce ==
    /\ pc = "PopStash"
    /\ \E ok \in BOOLEAN, raw \in PopOutputs :
         LET r == Run(raw, ok)
         IN  /\ Issue("stash pop", <<>>, r)
             /\ IF r.err /\ ~BenignPop(r.out)
                THEN IF log[Len(log)].op = "stash pop"
                     THEN errKind' = "StashPopError" /\ Exit(1)
                     ELSE UNCHANGED <<pc, errKind, exitCode>>
                ELSE UNCHANGED errKind /\ Exit(0)
    /\ UNCHANGED <<defaultBranch, currentBranch, didStash, head, dirty>>

\* popOutput, err := git.Run("stash", "pop") and the benign-failure test.
PopStash ==
    /\ pc = "PopStash"
    /\ \E ok \in BOOLEAN, raw \in PopOutputs :
         LET r == Run(raw, ok)
         IN  /\ Issue("stash pop", <<>>, r)
             /\ IF r.err /\ ~BenignPop(r.out)
                THEN errKind' = "StashPopError" /\ Exit(1)
                ELSE UNCHANGED errKind /\ Exit(0)
    /\ UNCHANGED <<defaultBranch, currentBranch, didStash, head, dirty>>

Next ==
    \/ Preflight
    \/ ResolveDefaultBranch
    \/ ResolveCurrentBranch
    \/ ShortCircuit
    \/ DetectDirtyTree
    \/ Stash
    \/ CheckoutDefault
    \/ CheckoutDefaultRestore
    \/ PullDefault
    \/ PullSwitchBack
    \/ PullRestore
    \/ CheckoutFeature
    \/ CheckoutFeatureRestore
    \/ Rebase
    \/ PopStash

Spec == Init /\ [][Next]_vars

\* Run is sequential and every git invocation returns, so a run that has
\* not finished takes its next step.
FairSpec == Spec /\ WF_vars(Next)

\* ------------------------------------------------------------------------
\* Type invariant
\* ------------------------------------------------------------------------

Ops == {"rev-parse --is-inside-work-tree", "remote show origin",
        "rev-parse --abbrev-ref HEAD", "status --porcelain", "stash",
        "stash pop", "checkout", "pull", "rebase"}

TypeOK ==
    /\ pc \in {"Preflight", "ResolveDefaultBranch", "ResolveCurrentBranch",
               "ShortCircuit", "DetectDirtyTree", "Stash", "CheckoutDefault",
               "CheckoutDefaultRestore", "PullDefault", "PullSwitchBack",
               "PullRestore", "CheckoutFeature", "CheckoutFeatureRestore",
               "Rebase", "PopStash", "done"}
    /\ \A i \in 1..Len(log) : log[i].op \in Ops /\ log[i].ok \in BOOLEAN
    /\ didStash \in BOOLEAN
    /\ exitCode \in {-1, 0, 1}
    /\ (pc = "done") <=> (exitCode # -1)
    /\ head \in Branches \cup RemoteHeads
    /\ dirty \in BOOLEAN

\* ------------------------------------------------------------------------
\* Vocabulary of the properties
\* ------------------------------------------------------------------------

Cmd(op, arg) == [op |-> op, arg |-> arg]

\* The commands issued so far, without their results.
Issued == [i \in 1..Len(log) |-> Cmd(log[i].op, log[i].arg)]

\* The commands issued after position i.
IssuedAfter(i) == SubSeq(Issued, i + 1, Len(log))

IsPrefix(a, b) == Len(a) <= Len(b) /\ SubSeq(b, 1, Len(a)) = a

PreflightQueries ==
    << Cmd("rev-parse --is-inside-work-tree", <<>>),
       Cmd("remote show origin", <<>>),
       Cmd("rev-parse --abbrev-ref HEAD", <<>>) >>

\* Both branch names have been resolved.
Resolved ==
    /\ Len(log) >= 3
    /\ SubSeq(Issued, 1, 3) = PreflightQueries
    /\ log[3].ok

\* The run is on the full path: the current branch is not the default one.
FullPath == Resolved /\ currentBranch # defaultBranch

AllOk == \A i \in 1..Len(log) : log[i].ok

StatusIssued == Len(log) >= 4 /\ log[4].op = "status --porcelain"

StashPop == Cmd("stash pop", <<>>)

\* The stash pop to issue iff the stash flag is set.
PopIfStashed == IF didStash THEN <<StashPop>> ELSE <<>>

\* ------------------------------------------------------------------------
\* C1
\* ------------------------------------------------------------------------

SyncSequence(d, c) ==
    << Cmd("status --porcelain", <<>>),
       Cmd("stash", <<>>),
       Cmd("checkout", d),
       Cmd("pull", <<>>),
       Cmd("checkout", c),
       Cmd("rebase", d),
       StashPop >>

\* C1: on the full path with a dirty tree and every command succeeding,
\* the commands issued after the three preflight queries are, in order,
\* status --porcelain, stash, checkout <default>, pull, checkout <current>,
\* rebase <default>, stash pop; the run ends exactly when all seven have
\* been issued, in success with exit code 0.
C1_DirtySuccessSequence ==
    (FullPath /\ AllOk /\ StatusIssued /\ log[4].out # <<>>) =>
        LET expected == SyncSequence(defaultBranch, currentBranch)
        IN  /\ IsPrefix(IssuedAfter(3), expected)
            /\ (pc = "done") <=> (IssuedAfter(3) = expected)
            /\ pc = "done" => exitCode = 0 /\ errKind = "None"

C1_Witness ==
    /\ FullPath /\ AllOk /\ StatusIssued /\ log[4].out # <<>>
    /\ pc = "done"
    /\ Len(log) = 10

\* ------------------------------------------------------------------------
\* C2
\* ------------------------------------------------------------------------

\* C2: when the resolved current branch equals the resolved default
\* branch, the only command issued after the preflight queries is one
\* pull, and the run ends right after it whatever the pull returned and
\* whatever the working tree holds.
C2_ShortCircuitOnlyPull ==
    (Resolved /\ currentBranch = defaultBranch) =>
        /\ IsPrefix(IssuedAfter(3), <<Cmd("pull", <<>>)>>)
        /\ (pc = "done") <=> (Len(log) = 4)
        /\ pc # "done" => pc = "ShortCircuit"

C2_Witness ==
    /\ Resolved /\ currentBranch = defaultBranch
    /\ dirty
    /\ pc = "done"
    /\ IssuedAfter(3) = <<Cmd("pull", <<>>)>>
    /\ ~log[4].ok

\* ------------------------------------------------------------------------
\* C3
\* ------------------------------------------------------------------------

\* C3: a failed rebase is the last command of the run, with the stash
\* flag set or not, and the run ends with RebaseConflict and exit code 1.
C3_RebaseFailureStops ==
    \A i \in 1..Len(log) :
        (log[i].op = "rebase" /\ ~log[i].ok) =>
            /\ i = Len(log)
            /\ pc = "done"
            /\ errKind = "RebaseConflict"
            /\ exitCode = 1

C3_Witness ==
    /\ Len(log) >= 1
    /\ log[Len(log)].op = "rebase" /\ ~log[Len(log)].ok
    /\ didStash
    /\ \E j \in 1..Len(log) : log[j].op = "stash" /\ log[j].ok

\* ------------------------------------------------------------------------
\* C4
\* ------------------------------------------------------------------------

\* Position i holds the checkout of the default branch (step 3): the first
\* checkout of the run.
IsCheckoutDefault(i) ==
    /\ log[i].op = "checkout"
    /\ \A j \in 1..(i - 1) : log[j].op # "checkout"

StashedBefore(i) == \E j \in 1..(i - 1) : log[j].op = "stash" /\ log[j].ok

\* C4: when the checkout of the default branch fails after a successful
\* stash, exactly one stash pop follows and nothing else, and the run ends
\* with CheckoutError; when nothing was stashed the run ends at once with
\* no stash pop.
C4_CheckoutDefaultFailure ==
    \A i \in 1..Len(log) :
        (IsCheckoutDefault(i) /\ ~log[i].ok) =>
            LET expected == IF StashedBefore(i) THEN <<StashPop>> ELSE <<>>
            IN  /\ IsPrefix(IssuedAfter(i), expected)
                /\ (pc = "done") <=> (IssuedAfter(i) = expected)
                /\ errKind = "CheckoutError"
                /\ pc = "done" => exitCode = 1

C4_Witness ==
    \E i \in 1..Len(log) :
        /\ IsCheckoutDefault(i) /\ ~log[i].ok
        /\ StashedBefore(i)
        /\ IssuedAfter(i) = <<StashPop>>
        /\ pc = "done"

\* ------------------------------------------------------------------------
\* C5
\* ------------------------------------------------------------------------

\* C5: the stash flag is false until the status query has answered, and on
\* the full path with an empty status answer it stays false and neither
\* stash nor stash pop is ever issued, on every path to the end of the run.
C5_CleanTreeNeverStashes ==
    /\ Len(log) <= 4 => ~didStash
    /\ (FullPath /\ StatusIssued /\ log[4].out = <<>>) =>
           /\ ~didStash
           /\ \A i \in 1..Len(log) : log[i].op \notin {"stash", "stash pop"}

\* A clean run that went through the compensating branch of a failed pull.
C5_Witness ==
    /\ FullPath /\ StatusIssued /\ log[4].out = <<>>
    /\ pc = "done"
    /\ errKind = "PullError"
    /\ log[Len(log)].op = "checkout"

\* ------------------------------------------------------------------------
\* C6
\* ------------------------------------------------------------------------

\* C6: on the full path with a non-empty status answer, every checkout is
\* preceded by a stash command, and a successful rebase is followed by a
\* stash pop: the run does not end, and issues nothing else, before it.
C6_DirtyTreeStashesAndPops ==
    (FullPath /\ StatusIssued /\ log[4].out # <<>>) =>
        /\ \A i \in 1..Len(log) :
              log[i].op = "checkout" =>
                  \E j \in 1..(i - 1) : log[j].op = "stash"
        /\ \A i \in 1..Len(log) :
              (log[i].op = "rebase" /\ log[i].ok) =>
                  IF i = Len(log)
                  THEN pc = "PopStash"
                  ELSE Issued[i + 1] = StashPop

C6_Witness ==
    /\ FullPath /\ StatusIssued /\ log[4].out # <<>>
    /\ pc = "done"
    /\ \E i \in 1..(Len(log) - 1) :
          /\ log[i].op = "rebase" /\ log[i].ok
          /\ Issued[i + 1] = StashPop

\* ------------------------------------------------------------------------
\* C7
\* ------------------------------------------------------------------------

\* C7: when the pull of the full path fails, the run issues a checkout of
\* the original branch, then a stash pop iff the stash flag is set, whether
\* or not that checkout succeeded, and nothing else; it ends with PullError
\* and exit code 1.
C7_PullFailure ==
    \A i \in 1..Len(log) :
        (FullPath /\ log[i].op = "pull" /\ ~log[i].ok) =>
            LET expected == <<Cmd("checkout", currentBranch)>> \o PopIfStashed
            IN  /\ IsPrefix(IssuedAfter(i), expected)
                /\ (pc = "done") <=> (IssuedAfter(i) = expected)
                /\ errKind = "PullError"
                /\ pc = "done" => exitCode = 1

\* The compensating checkout failed and the stash pop was issued all the
\* same.
C7_Witness ==
    \E i \in 1..Len(log) :
        /\ FullPath /\ log[i].op = "pull" /\ ~log[i].ok
        /\ Len(log) = i + 2
        /\ log[i + 1].op = "checkout" /\ ~log[i + 1].ok
        /\ Issued[i + 2] = StashPop
        /\ pc = "done"

\* ------------------------------------------------------------------------
\* C8
\* ------------------------------------------------------------------------

\* Position i holds the checkout of step 5: the checkout that follows a
\* successful pull.
IsCheckoutFeature(i) ==
    /\ i > 1
    /\ log[i].op = "checkout"
    /\ log[i - 1].op = "pull" /\ log[i - 1].ok

\* C8: when the checkout back to the original branch fails, the run issues
\* a stash pop iff the stash flag is set, and nothing else (no rebase); it
\* ends with CheckoutError and exit code 1.
C8_CheckoutFeatureFailure ==
    \A i \in 1..Len(log) :
        (IsCheckoutFeature(i) /\ ~log[i].ok) =>
            /\ IsPrefix(IssuedAfter(i), PopIfStashed)
            /\ (pc = "done") <=> (IssuedAfter(i) = PopIfStashed)
            /\ errKind = "CheckoutError"
            /\ pc = "done" => exitCode = 1

C8_Witness ==
    \E i \in 1..Len(log) :
        /\ IsCheckoutFeature(i) /\ ~log[i].ok
        /\ didStash
        /\ IssuedAfter(i) = <<StashPop>>
        /\ pc = "done"

\* ------------------------------------------------------------------------
\* C9
\* ------------------------------------------------------------------------

BenignPhrases == {NoStashFound, NoStashEntriesFound, DidNotNeedToPopStash}

\* The text holds one of the benign phrases, in any letter case.
HoldsBenignPhrase(text) ==
    \E p \in BenignPhrases : \E k \in 1..Len(text) :
        /\ k + Len(p) - 1 <= Len(text)
        /\ LowerText(SubSeq(text, k, k + Len(p) - 1)) = LowerText(p)

\* Position i holds the stash pop of step 7: the one that follows the
\* rebase.
IsPopStash(i) ==
    /\ i > 1
    /\ log[i].op = "stash pop"
    /\ log[i - 1].op = "rebase"

\* C9: a failed stash pop of step 7 ends the run in success with exit code
\* 0 when its text holds one of the benign phrases in any letter case, and
\* in StashPopError with exit code 1 when it holds none.
C9_PopStashFailure ==
    \A i \in 1..Len(log) :
        (IsPopStash(i) /\ ~log[i].ok) =>
            /\ pc = "done"
            /\ i = Len(log)
            /\ IF HoldsBenignPhrase(log[i].out)
               THEN exitCode = 0 /\ errKind = "None"
               ELSE exitCode = 1 /\ errKind = "StashPopError"

\* A failed pop whose text is a benign phrase in capitals.
C9_Witness ==
    /\ Len(log) > 1
    /\ IsPopStash(Len(log)) /\ ~log[Len(log)].ok
    /\ log[Len(log)].out = UpperText(DidNotNeedToPopStash)
    /\ exitCode = 0

\* ------------------------------------------------------------------------
\* C10
\* ------------------------------------------------------------------------

\* The text holds the substring "HEAD branch:".
HoldsMarker(text) ==
    \E k \in 1..Len(text) :
        /\ k + Len(HeadBranchMarker) - 1 <= Len(text)
        /\ SubSeq(text, k, k + Len(HeadBranchMarker) - 1) = HeadBranchMarker

\* C10: when the answer of the remote query does not hold "HEAD branch:",
\* the remote query is the last command of the run, which ends with
\* DefaultBranchError and exit code 1.
C10_NoMarkerStops ==
    (Len(log) >= 2 /\ ~HoldsMarker(log[2].out)) =>
        /\ Len(log) = 2
        /\ log[2].op = "remote show origin"
        /\ pc = "done"
        /\ errKind = "DefaultBranchError"
        /\ exitCode = 1

\* The remote query succeeded and its answer names no HEAD branch.
C10_Witness ==
    /\ Len(log) = 2
    /\ log[2].ok
    /\ ~HoldsMarker(log[2].out)
    /\ log[2].out # <<>>
    /\ pc = "done"

\* ------------------------------------------------------------------------
\* C11
\* ------------------------------------------------------------------------

\* A branch name follows the marker somewhere in the text.
NameFollowsMarker(text) ==
    \E k \in 1..Len(text) :
        /\ k + Len(HeadBranchMarker) - 1 <= Len(text)
        /\ SubSeq(text, k, k + Len(HeadBranchMarker) - 1) = HeadBranchMarker
        /\ \E j \in (k + Len(HeadBranchMarker))..Len(text) : text[j] \notin WS

\* The step at position i failed fatally: its command failed, other than
\* the stash pop of step 7 failing with a benign phrase, or the remote
\* query answered without naming a default branch.
FatalStep(i) ==
    \/ ~log[i].ok /\ ~(IsPopStash(i) /\ HoldsBenignPhrase(log[i].out))
    \/ log[i].op = "remote show origin" /\ ~NameFollowsMarker(log[i].out)

SomeFatalStep == \E i \in 1..Len(log) : FatalStep(i)

\* C11: a finished run has exit code 1 when some step failed fatally and
\* exit code 0 otherwise; the runs with exit code 0 are the short path
\* after its pull and the full path after its rebase (and stash pop, when
\* something was stashed).
C11_ExitCode ==
    pc = "done" =>
        /\ exitCode = IF SomeFatalStep THEN 1 ELSE 0
        /\ exitCode = 0 =>
              \/ /\ currentBranch = defaultBranch
                 /\ IssuedAfter(3) = <<Cmd("pull", <<>>)>>
              \/ /\ currentBranch # defaultBranch
                 /\ \E i \in 1..Len(log) : log[i].op = "rebase" /\ log[i].ok
                 /\ didStash => Issued[Len(log)] = StashPop

\* The short path ended in success.
C11_Witness ==
    /\ Resolved /\ currentBranch = defaultBranch
    /\ pc = "done"
    /\ exitCode = 0
    /\ log[Len(log)].op = "pull" /\ log[Len(log)].ok

\* ------------------------------------------------------------------------
\* C12
\* ------------------------------------------------------------------------

\* The error kind reported for a fatal failure of the step at position i.
KindOfStep(i) ==
    CASE log[i].op = "rev-parse --is-inside-work-tree" -> "NotARepository"
      [] log[i].op = "remote show origin"              -> "DefaultBranchError"
      [] log[i].op = "rev-parse --abbrev-ref HEAD"     -> "BranchResolutionError"
      [] log[i].op = "status --porcelain"              -> "StatusError"
      [] log[i].op = "stash"                           -> "StashError"
      [] log[i].op = "checkout"                        -> "CheckoutError"
      [] log[i].op = "pull"                            -> "PullError"
      [] log[i].op = "rebase"                          -> "RebaseConflict"
      [] log[i].op = "stash pop"                       -> "StashPopError"

\* The first step that failed fatally.
FirstFatalStep == CHOOSE i \in 1..Len(log) :
    FatalStep(i) /\ \A j \in 1..(i - 1) : ~FatalStep(j)

\* C12: no command is issued twice in a run; once a step has failed
\* fatally at most two compensating commands follow it, and the error kind
\* and the exit code are those of that first failed step whatever the
\* compensating commands returned.
C12_CompensationsDoNotChangeOutcome ==
    /\ \A i, j \in 1..Len(log) : i # j => Issued[i] # Issued[j]
    /\ SomeFatalStep =>
          /\ errKind = KindOfStep(FirstFatalStep)
          /\ Len(IssuedAfter(FirstFatalStep)) <= 2
          /\ \A i \in (FirstFatalStep + 1)..Len(log) :
                Issued[i] \in {Cmd("checkout", currentBranch), StashPop}
          /\ pc = "done" => exitCode = 1
    /\ ~SomeFatalStep => errKind = "None"

\* A failed pull whose two compensating commands both failed.
C12_Witness ==
    /\ pc = "done"
    /\ Len(log) >= 3
    /\ log[Len(log) - 2].op = "pull" /\ ~log[Len(log) - 2].ok
    /\ log[Len(log) - 1].op = "checkout" /\ ~log[Len(log) - 1].ok
    /\ log[Len(log)].op = "stash pop" /\ ~log[Len(log)].ok
    /\ errKind = "PullError"

\* ------------------------------------------------------------------------
\* C13
\* ------------------------------------------------------------------------

StateChangingOps == {"stash", "checkout", "pull", "rebase", "stash pop"}

\* C13: the first three commands of a run are the is-repository probe, the
\* remote query and the current-branch query, in this order; a failed
\* probe is the only command of its run, which ends with NotARepository;
\* and a state-changing command is issued only after all three preflight
\* steps succeeded.
C13_PreflightOrder ==
    /\ \A i \in 1..Len(log) : i <= 3 => Issued[i] = PreflightQueries[i]
    /\ (Len(log) >= 1 /\ ~log[1].ok) =>
          /\ Len(log) = 1
          /\ pc = "done"
          /\ errKind = "NotARepository"
          /\ exitCode = 1
    /\ \A i \in 1..Len(log) :
          log[i].op \in StateChangingOps =>
              /\ i > 3
              /\ log[1].ok
              /\ log[2].ok /\ NameFollowsMarker(log[2].out)
              /\ log[3].ok

\* The probe failed and the run is over.
C13_Witness ==
    /\ Len(log) = 1
    /\ log[1].op = "rev-parse --is-inside-work-tree" /\ ~log[1].ok
    /\ pc = "done"

\* ------------------------------------------------------------------------
\* C14
\* ------------------------------------------------------------------------

\* C14: a failed stash command is the last command of its run, which ends
\* with StashError and exit code 1 with the stash flag still false.
C14_StashFailureStops ==
    \A i \in 1..Len(log) :
        (log[i].op = "stash" /\ ~log[i].ok) =>
            /\ i = Len(log)
            /\ pc = "done"
            /\ errKind = "StashError"
            /\ exitCode = 1
            /\ ~didStash

C14_Witness ==
    /\ Len(log) = 5
    /\ log[5].op = "stash" /\ ~log[5].ok
    /\ dirty

\* ------------------------------------------------------------------------
\* C15
\* ------------------------------------------------------------------------

\* Position of the first occurrence of the marker in a text that holds it.
FirstMarker(text) ==
    CHOOSE k \in 1..Len(text) :
        /\ OccursAt(text, HeadBranchMarker, k)
        /\ \A m \in 1..(k - 1) : ~OccursAt(text, HeadBranchMarker, m)

RECURSIVE SkipWhite(_, _)
\* The position reached from j by stepping over white space.
SkipWhite(text, j) ==
    IF j <= Len(text) /\ text[j] \in WS THEN SkipWhite(text, j + 1) ELSE j

RECURSIVE TokenFrom(_, _)
\* The characters from j up to the next white space or the end.
TokenFrom(text, j) ==
    IF j > Len(text) \/ text[j] \in WS THEN <<>>
    ELSE <<text[j]>> \o TokenFrom(text, j + 1)

\* The first white-space-delimited token after the first occurrence of the
\* marker, white space between them skipped.
NameAfterMarker(text) ==
    TokenFrom(text,
              SkipWhite(text, FirstMarker(text) + Len(HeadBranchMarker)))

\* C15 as stated: resolution returns the token after the first marker
\* whenever the remote query succeeded and its answer holds the marker, and
\* fails with DefaultBranchError otherwise.
C15_AsStated ==
    (Len(log) >= 2) =>
        IF log[2].ok /\ HoldsMarker(log[2].out)
        THEN /\ errKind # "DefaultBranchError"
             /\ defaultBranch = NameAfterMarker(log[2].out)
        ELSE errKind = "DefaultBranchError"

\* C15, amended: resolution returns the first white-space-delimited token
\* after the first occurrence of the marker whenever the remote query
\* succeeded and its answer holds the marker with a non-white-space
\* character somewhere after it; it fails with DefaultBranchError, ending
\* the run, when the query failed, when the marker is absent, or when
\* nothing follows the marker.
C15_DefaultBranchResolution ==
    (Len(log) >= 2) =>
        IF log[2].ok /\ NameFollowsMarker(log[2].out)
        THEN /\ errKind # "DefaultBranchError"
             /\ defaultBranch = NameAfterMarker(log[2].out)
             /\ defaultBranch # <<>>
        ELSE /\ errKind = "DefaultBranchError"
             /\ pc = "done" /\ exitCode = 1 /\ Len(log) = 2

\* The answer holds the marker twice and the first name was taken.
C15_Witness ==
    /\ Len(log) >= 2
    /\ log[2].ok
    /\ \E k \in 2..Len(log[2].out) : OccursAt(log[2].out, HeadBranchMarker, k)
    /\ OccursAt(log[2].out, HeadBranchMarker, 1)
    /\ defaultBranch = Dev

\* ------------------------------------------------------------------------
\* C16
\* ------------------------------------------------------------------------

StashPops == {i \in 1..Len(log) : log[i].op = "stash pop"}
SuccessfulStashes == {i \in 1..Len(log) : log[i].op = "stash" /\ log[i].ok}

\* C16: every stash pop comes after a successful stash of the same run,
\* with the stash flag set; a run issues at most one stash pop, and never
\* more stash pops than it has successful stashes, of which there is at
\* most one.
C16_PopOnlyAfterStash ==
    /\ \A i \in StashPops : didStash /\ StashedBefore(i)
    /\ Cardinality(StashPops) <= Cardinality(SuccessfulStashes)
    /\ Cardinality(SuccessfulStashes) <= 1
    /\ didStash <=> (SuccessfulStashes # {})

\* A stash pop issued on a recovery path, which itself failed.
C16_Witness ==
    /\ pc = "done"
    /\ Cardinality(StashPops) = 1
    /\ Cardinality(SuccessfulStashes) = 1
    /\ errKind = "CheckoutError"
    /\ ~log[Len(log)].ok /\ log[Len(log)].op = "stash pop"

\* ------------------------------------------------------------------------
\* C17
\* ------------------------------------------------------------------------

\* This step issues a stash pop.
IssuesStashPop ==
    /\ Len(log') = Len(log) + 1
    /\ log'[Len(log')].op = "stash pop"

\* The last command issued is a failed checkout that came right after a
\* successful pull: the failed step 5.
AfterFailedCheckoutFeature ==
    /\ Len(log) >= 2
    /\ IsCheckoutFeature(Len(log)) /\ ~log[Len(log)].ok

\* The last command issued is a failed checkout that came right after a
\* failed pull: the failed attempt to switch back.
AfterFailedSwitchBack ==
    /\ Len(log) >= 2
    /\ log[Len(log)].op = "checkout" /\ ~log[Len(log)].ok
    /\ log[Len(log) - 1].op = "pull" /\ ~log[Len(log) - 1].ok

\* C17 as stated: a stash pop is issued with HEAD on the original branch,
\* except after a failed step 5, where HEAD is on the default branch.
C17_AsStated ==
    [][IssuesStashPop =>
          IF AfterFailedCheckoutFeature
          THEN head = defaultBranch
          ELSE head = currentBranch]_vars

\* C17, amended: a stash pop is issued with HEAD on the original branch,
\* except after a failed step 5 and after a failed pull whose switch back
\* to the original branch failed too, where HEAD is on the default branch.
C17_PopBranch ==
    [][IssuesStashPop =>
          IF AfterFailedCheckoutFeature \/ AfterFailedSwitchBack
          THEN head = defaultBranch /\ head # currentBranch
          ELSE head = currentBranch]_vars

\* The stash pop after a failed pull and a failed switch back has been
\* issued, with HEAD on the default branch.
C17_Witness ==
    /\ Len(log) >= 3
    /\ log[Len(log)].op = "stash pop"
    /\ log[Len(log) - 1].op = "checkout" /\ ~log[Len(log) - 1].ok
    /\ log[Len(log) - 2].op = "pull" /\ ~log[Len(log) - 2].ok
    /\ head = defaultBranch

\* ------------------------------------------------------------------------
\* C18
\* ------------------------------------------------------------------------

\* C18: a failed status query is the last command of its run, which ends
\* with exit code 1 with the stash flag false and no state-changing
\* command issued.
C18_StatusFailureStops ==
    (StatusIssued /\ ~log[4].ok) =>
        /\ Len(log) = 4
        /\ pc = "done"
        /\ exitCode = 1
        /\ errKind = "StatusError"
        /\ ~didStash
        /\ \A i \in 1..Len(log) : log[i].op \notin StateChangingOps

C18_Witness ==
    /\ StatusIssued /\ ~log[4].ok
    /\ log[4].out # <<>>
    /\ pc = "done"

\* ------------------------------------------------------------------------
\* C19
\* ------------------------------------------------------------------------

\* C19: every run reaches the end, for every combination of command
\* results, having issued at most ten git commands (three preflight
\* queries, status, stash, checkout, pull, checkout, rebase, stash pop), and
\* issues no command after it has ended.
C19_Terminates ==
    /\ <>(pc = "done")
    /\ [](Len(log) <= 10)
    /\ [][pc = "done" => UNCHANGED vars]_vars

\* A run that used all ten commands and failed at the last one.
C19_Witness ==
    /\ pc = "done"
    /\ Len(log) = 10
    /\ ~log[10].ok
    /\ exitCode = 1

====
